---- MODULE Spec2Model ----
(***************************************************************************)
(* A model of the DHCP protocol engine of next-dhcp: the per-transaction   *)
(* Session state machine (src/src/core/dhcp.py, class Session), the        *)
(* Transaction Table and its sweep (DHCPServer._worker), the server loop   *)
(* (DHCPServer.start / stop) and the address range of the configuration    *)
(* (src/src/config/dhcp.py).  The Lease Store (HostDatabase) is imported   *)
(* by core/dhcp.py from dhcp.core.database, whose source is not at hand;   *)
(* it is modelled from its contract in spec.md section 4.3.                *)
(*                                                                         *)
(* IPv4 addresses are integers, as in DHCPServerConfiguration.range.       *)
(* Time is the value of time.time(), in seconds.  One cycle of the server  *)
(* loop (one call of _worker) is one atomic step: the code is single       *)
(* threaded, and the clock is taken not to advance inside a cycle.  The    *)
(* datagram waiting in the receive buffer of the listening socket is the   *)
(* variable inbox; the network puts it there (Arrive).                     *)
(*                                                                         *)
(* Three specifications: Spec is the serving loop with stop() as one step; *)
(* StopSpec takes stop() statement by statement, beside the persistence    *)
(* worker of the Lease Store, over fewer datagrams, with the fairness of a *)
(* running thread; CheckSpec applies DHCPServerConfiguration.check to a    *)
(* set of configurations.  stop() is entered while the loop waits in       *)
(* select, where the loop spends its time.                                 *)
(***************************************************************************)
EXTENDS Integers, Sequences, FiniteSets, TLC

\* ------------------------------------------------------------- bounds
\* The clock advances MaxTicks times at most.
MaxTicks == 2

\* The hardware addresses of the clients (one more than the range holds)
\* and the transaction ids they choose.
MACs == {1, 2, 3}

Xids == {1, 2}

\* The configurations that are validated have the endpoints of their range
\* at most Margin addresses outside the network.
Margin == 2

\* ------------------------------------------------------ configuration
\* DHCPServerConfiguration.network as the set of its addresses, from the
\* network address to the broadcast address (a /30).
network == 8 .. 11

\* DHCPServerConfiguration.range: (first, last) of the allocation range,
\* the two-address range of spec.md scenario A placed inside the network.
range == <<9, 10>>

\* The 30 seconds of Session.__init__: self.timeout = time.time() + 30
SessionTimeout == 30

\* Between two cycles the clock advances by one of TickSteps (seconds), so
\* that cycles run before, exactly at and after the deadline of a Session.
TickSteps == {SessionTimeout}

MaxTime == MaxTicks * SessionTimeout

\* The addresses of the inclusive allocation range.
RangeIPs == range[1] .. range[2]

\* DHCPServerConfiguration.in_range(ip): ipaddress.ip_address(ip) in self.network
in_range(ip) == ip \in network

\* 0 is the address 0.0.0.0; None is Python's None (an absent option, no
\* server_ip).
None == -1

\* The addresses in and around the network.
Addresses == { a \in 0 .. 32 : \E n \in network : a - n <= Margin /\ n - a <= Margin }

\* The configurations handed to check(): with and without server_ip, every
\* range over Addresses (also the empty and the reversed ones).
Configurations ==
    [ server_ip : {None, range[1]}, range : Addresses \X Addresses ]

\* DHCPServerConfiguration.dhcp_range_len
dhcp_range_len(c) == c.range[2] - c.range[1]

\* DHCPServerConfiguration.check: "ok" when it returns, else the exception
\* it raises.
check(c) ==
    IF c.server_ip = None THEN "InvalidDHCPConfiguration"
    ELSE IF c.range[1] \notin network \/ c.range[2] \notin network
    THEN "InvalidDHCPConfiguration"
    ELSE IF dhcp_range_len(c) < 2 THEN "InvalidDHCPConfiguration"
    ELSE "ok"

\* ------------------------------------------------------------ packets

\* class DHCPMessages(Enum)
DHCPMessages ==
    { "DHCPDISCOVER", "DHCPOFFER", "DHCPREQUEST", "DHCPDECLINE",
      "DHCPACK", "DHCPNAK", "DHCPRELEASE", "DHCPINFORM" }

\* A decoded DHCPPacket as the handlers read it: op, option 53, chaddr, xid,
\* option 50, ciaddr, yiaddr and option 12.
Packet(op, type, mac, xid, opt50, ciaddr, hostname) ==
    [ op |-> op, type |-> type, chaddr |-> mac, xid |-> xid,
      opt50 |-> opt50, ciaddr |-> ciaddr, yiaddr |-> 0, hostname |-> hostname ]

\* Discover messages: every MAC, every transaction id; option 50 absent, in
\* the range (10) or in the network but outside the range (11, the
\* broadcast address); ciaddr 0.0.0.0 (outside the network) or 11; and
\* the Discovers without any hint that carry a hostname option.
DiscoverPackets ==
    { Packet("BOOTREQUEST", "DHCPDISCOVER", m, x, o, c, None) :
        m \in MACs, x \in Xids, o \in {None, 10, 11}, c \in {0, 11} }
    \cup
    { Packet("BOOTREQUEST", "DHCPDISCOVER", m, x, None, 0, 1) :
        m \in MACs, x \in Xids }

\* Request messages: option 50 absent or naming an address.
RequestPackets ==
    { Packet("BOOTREQUEST", "DHCPREQUEST", m, x, o, 0, None) :
        m \in MACs, x \in Xids, o \in {None, 9, 10, 11} }

\* Client messages of every other type, "UNKNOWN" being a message type
\* that is no member of DHCPMessages.
OtherPackets ==
    { Packet("BOOTREQUEST", t, 1, x, None, 0, None) :
        t \in (DHCPMessages \cup {"UNKNOWN"}) \ {"DHCPDISCOVER", "DHCPREQUEST"},
        x \in Xids }

\* Messages whose op is not BOOTREQUEST (sent by a server).
ReplyPackets ==
    { Packet("BOOTREPLY", t, 1, x, None, 0, None) :
        t \in {"DHCPDISCOVER", "DHCPREQUEST", "DHCPOFFER"}, x \in Xids }

Packets == DiscoverPackets \cup RequestPackets \cup OtherPackets \cup ReplyPackets

\* What recvfrom can return besides a packet: bytes DHCPPacket.from_bytes
\* raises on, and a packet without option 53.
Undecodable == [op |-> "UNDECODABLE"]

NoOption53 == [op |-> "NOOPTION53"]

Datagrams == Packets \cup {Undecodable, NoOption53}

\* The receive buffer of the socket is empty.
NoDatagram == [op |-> "NONE"]

\* -------------------------------------------------------------- state
VARIABLES
    inbox,        \* the datagram waiting in the listening socket, NoDatagram when none
    hosts,        \* HostDatabase: MAC -> leased IP, 0 when the MAC has no lease
    sessions,     \* DHCPServer.sessions: xid -> Session, NoSession when absent
    closed,       \* DHCPServer.closed
    now,          \* time.time()
    out,          \* the packets DHCPServer.broadcast was called with since the last datagram arrived
    offers,       \* history: every Offer broadcast so far, as <<chaddr, yiaddr>>
    discovers,    \* history: the xids of the Discovers received so far
    swept,        \* whether the sweep of _worker has run since the clock last advanced
    last,         \* history: the kind of datagram the last cycle handled, "NONE" when none
    failed,       \* whether a send of DHCPServer.broadcast raised in the last cycle
    pc,           \* where the thread of start() is: in the loop, in a step of stop(), returned
    ret,          \* where stop() returns to: the except clause of start(), or select
    sock,         \* DHCPServer.socket: "open" or "closed"
    run,          \* HostDatabase.run, the flag the persistence worker polls
    worker,       \* the persistence worker HostDatabase.t: "running" or "exited"
    durable,      \* the leases in durable storage: MAC -> IP, 0 when none
    conf,         \* the DHCPServerConfiguration: server_ip and range
    result        \* what DHCPServerConfiguration.check() did: "none" before the call

vars == <<inbox, hosts, sessions, closed, now, out, offers, discovers, swept,
          last, failed, pc, ret, sock, run, worker, durable, conf, result>>

\* The variables of the shutdown and of the configuration, which the cycles
\* of the loop leave alone.
stopvars == <<pc, ret, sock, run, worker, durable, conf, result>>

NoSession == [start |-> -1, timeout |-> -1, closed |-> FALSE]

\* ---------------------------------------------------------- Lease Store
\* HostDatabase.get(mac=...): the lease of the MAC, None when there is none.
get(h, mac) == IF h[mac] = 0 THEN None ELSE h[mac]

\* The addresses of the range that no lease holds, and the first of them.
FreeIPs(h) == { ip \in RangeIPs : \A m \in MACs : h[m] # ip }

MinOf(S) == CHOOSE x \in S : \A y \in S : x <= y

\* HostDatabase.find_or_register(mac, req_ip, hostname): the IP of the
\* lease of mac when there is one; else the hint when in_range accepts it
\* and no lease holds it; else the first free address of the range; else 0.
find_or_register(h, mac, req_ip, hostname) ==
    IF h[mac] # 0
    THEN [ip |-> h[mac], hosts |-> h]
    ELSE IF in_range(req_ip) /\ (\A m \in MACs : h[m] # req_ip)
    THEN [ip |-> req_ip, hosts |-> [h EXCEPT ![mac] = req_ip]]
    ELSE IF FreeIPs(h) # {}
    THEN [ip |-> MinOf(FreeIPs(h)), hosts |-> [h EXCEPT ![mac] = MinOf(FreeIPs(h))]]
    ELSE [ip |-> 0, hosts |-> h]

\* HostDatabase.flush(): every buffered mutation is written, so that the
\* durable storage d holds every lease of the in-memory view h.
flush(h, d) == [m \in MACs |-> IF h[m] # 0 THEN h[m] ELSE d[m]]

\* -------------------------------------------------------------- Session
\* A reply handed to DHCPServer.broadcast: its message type (option 53),
\* chaddr, xid and yiaddr.
Reply(type, packet, ip) ==
    [type |-> type, chaddr |-> packet.chaddr, xid |-> packet.xid, yiaddr |-> ip]

\* Session.__init__
NewSession(t) == [start |-> t, timeout |-> t + SessionTimeout, closed |-> FALSE]

\* is_done with the deadline itself counted as elapsed.
is_done_inclusive(s, t) == s.closed \/ s.timeout <= t

\* Session.is_done
is_done(s, t) == s.closed \/ s.timeout < t

\* send_nak without the replacement of the options of the Ack it builds:
\* the message type stays DHCPACK.
send_nak_noreplace(h, packet) ==
    [hosts |-> h, out |-> <<Reply("DHCPACK", packet, packet.yiaddr)>>]

\* Session.send_nak
send_nak(h, packet) ==
    [hosts |-> h, out |-> <<Reply("DHCPNAK", packet, packet.yiaddr)>>]

\* send_offer with the client's yiaddr offered instead of the registered IP.
send_offer_yiaddr(h, packet) ==
    LET req_ip == IF packet.opt50 # None THEN packet.opt50 ELSE packet.ciaddr
        r      == find_or_register(h, packet.chaddr, req_ip, packet.hostname)
    IN  IF r.ip = 0
        THEN [hosts |-> r.hosts, out |-> <<>>]
        ELSE [hosts |-> r.hosts, out |-> <<Reply("DHCPOFFER", packet, packet.yiaddr)>>]

\* send_offer with the requested IP of option 50 offered when the option is
\* present.
send_offer_hint(h, packet) ==
    LET req_ip == IF packet.opt50 # None THEN packet.opt50 ELSE packet.ciaddr
        r      == find_or_register(h, packet.chaddr, req_ip, packet.hostname)
    IN  IF r.ip = 0
        THEN [hosts |-> r.hosts, out |-> <<>>]
        ELSE IF packet.opt50 # None
        THEN [hosts |-> r.hosts, out |-> <<Reply("DHCPOFFER", packet, packet.opt50)>>]
        ELSE [hosts |-> r.hosts, out |-> <<Reply("DHCPOFFER", packet, r.ip)>>]

\* send_offer without the test ip == 0.
send_offer_noguard(h, packet) ==
    LET req_ip == IF packet.opt50 # None THEN packet.opt50 ELSE packet.ciaddr
        r      == find_or_register(h, packet.chaddr, req_ip, packet.hostname)
    IN  [hosts |-> r.hosts, out |-> <<Reply("DHCPOFFER", packet, r.ip)>>]

\* Session.send_offer
send_offer(h, packet) ==
    LET req_ip == IF packet.opt50 # None THEN packet.opt50 ELSE packet.ciaddr
        r      == find_or_register(h, packet.chaddr, req_ip, packet.hostname)
    IN  IF r.ip = 0
        THEN [hosts |-> r.hosts, out |-> <<>>]
        ELSE [hosts |-> r.hosts, out |-> <<Reply("DHCPOFFER", packet, r.ip)>>]

\* send_ack without the test host is None.
send_ack_nohost(h, packet) ==
    LET host == get(h, packet.chaddr)
    IN  IF packet.opt50 # None /\ host # packet.opt50
        THEN send_nak(h, packet)
        ELSE [hosts |-> h, out |-> <<Reply("DHCPACK", packet, IF host = None THEN 0 ELSE host)>>]

\* send_ack without the comparison of option 50 with the lease.
send_ack_nocompare(h, packet) ==
    LET host == get(h, packet.chaddr)
    IN  IF host = None
        THEN send_nak(h, packet)
        ELSE [hosts |-> h, out |-> <<Reply("DHCPACK", packet, host)>>]

\* send_ack with the Ack built like the Nak, from the client's yiaddr.
send_ack_yiaddr(h, packet) ==
    LET host == get(h, packet.chaddr)
    IN  IF host = None
        THEN send_nak(h, packet)
        ELSE IF packet.opt50 # None /\ host # packet.opt50
        THEN send_nak(h, packet)
        ELSE [hosts |-> h, out |-> <<Reply("DHCPACK", packet, packet.yiaddr)>>]

\* send_ack that registers a MAC without lease instead of refusing it.
send_ack_register(h, packet) ==
    LET host == get(h, packet.chaddr)
        r    == find_or_register(h, packet.chaddr, packet.ciaddr, packet.hostname)
    IN  IF host = None
        THEN [hosts |-> r.hosts, out |-> <<Reply("DHCPNAK", packet, packet.yiaddr)>>]
        ELSE IF packet.opt50 # None /\ host # packet.opt50
        THEN send_nak(h, packet)
        ELSE [hosts |-> h, out |-> <<Reply("DHCPACK", packet, host)>>]

\* Session.send_ack
send_ack(h, packet) ==
    LET host == get(h, packet.chaddr)
    IN  IF host = None
        THEN send_nak(h, packet)
        ELSE IF packet.opt50 # None /\ host # packet.opt50
        THEN send_nak(h, packet)
        ELSE [hosts |-> h, out |-> <<Reply("DHCPACK", packet, host)>>]

\* receive with is_done() tested instead of self.closed.
receive_done(s, h, packet) ==
    IF is_done(s, now)
    THEN [hosts |-> h, out |-> <<>>]
    ELSE IF packet.op = "BOOTREQUEST"
    THEN IF packet.type \notin DHCPMessages
         THEN [hosts |-> h, out |-> <<>>]
         ELSE IF packet.type = "DHCPDISCOVER" THEN send_offer(h, packet)
         ELSE IF packet.type = "DHCPREQUEST" THEN send_ack(h, packet)
         ELSE [hosts |-> h, out |-> <<>>]
    ELSE [hosts |-> h, out |-> <<>>]

\* receive without the test of self.closed.
receive_noclosed(s, h, packet) ==
    IF packet.op = "BOOTREQUEST"
    THEN IF packet.type \notin DHCPMessages
         THEN [hosts |-> h, out |-> <<>>]
         ELSE IF packet.type = "DHCPDISCOVER" THEN send_offer(h, packet)
         ELSE IF packet.type = "DHCPREQUEST" THEN send_ack(h, packet)
         ELSE [hosts |-> h, out |-> <<>>]
    ELSE [hosts |-> h, out |-> <<>>]

\* receive with a DHCPINFORM answered like a DHCPREQUEST.
receive_inform(s, h, packet) ==
    IF s.closed
    THEN [hosts |-> h, out |-> <<>>]
    ELSE IF packet.op = "BOOTREQUEST"
    THEN IF packet.type \notin DHCPMessages
         THEN [hosts |-> h, out |-> <<>>]
         ELSE IF packet.type = "DHCPDISCOVER" THEN send_offer(h, packet)
         ELSE IF packet.type \in {"DHCPREQUEST", "DHCPINFORM"} THEN send_ack(h, packet)
         ELSE [hosts |-> h, out |-> <<>>]
    ELSE [hosts |-> h, out |-> <<>>]

\* Session.receive
receive(s, h, packet) ==
    IF s.closed
    THEN [hosts |-> h, out |-> <<>>]
    ELSE IF packet.op = "BOOTREQUEST"
    THEN IF packet.type \notin DHCPMessages
         THEN [hosts |-> h, out |-> <<>>]
         ELSE IF packet.type = "DHCPDISCOVER" THEN send_offer(h, packet)
         ELSE IF packet.type = "DHCPREQUEST" THEN send_ack(h, packet)
         ELSE [hosts |-> h, out |-> <<>>]
    ELSE [hosts |-> h, out |-> <<>>]

\* ---------------------------------------------------------- DHCPServer
\* The lookup with a new Session made for every datagram.
Lookup_fresh(tab, xid, t) == NewSession(t)

\* self.sessions[packet.xid] of the defaultdict: the Session of the id,
\* created when the id is not in the table.
Lookup(tab, xid, t) == IF tab[xid] = NoSession THEN NewSession(t) ELSE tab[xid]

\* The sweep at the end of _worker: every Session that is done is closed
\* and popped.
Sweep(tab, t) ==
    [x \in Xids |-> IF tab[x] # NoSession /\ is_done(tab[x], t) THEN NoSession ELSE tab[x]]

\* The Offers among the replies of a cycle, as history entries.
OffersOf(o) ==
    { <<o[i].chaddr, o[i].yiaddr>> : i \in { j \in 1 .. Len(o) : o[j].type = "DHCPOFFER" } }

\* Whether receive hands the packet to send_offer.
IsDiscover(s, packet) ==
    ~s.closed /\ packet.op = "BOOTREQUEST" /\ packet.type = "DHCPDISCOVER"

\* What kind of datagram a cycle handled, for the history: a Discover or a
\* Request of a client, a client message of another type, a message of a
\* server, or a datagram the cycle faulted on.
Kind(d) ==
    IF d \in DiscoverPackets THEN "DISCOVER"
    ELSE IF d \in RequestPackets THEN "REQUEST"
    ELSE IF d \in OtherPackets THEN "OTHER"
    ELSE IF d \in ReplyPackets THEN "REPLY"
    ELSE "FAULT"

Init ==
    /\ inbox = NoDatagram
    /\ hosts = [m \in MACs |-> 0]
    /\ sessions = [x \in Xids |-> NoSession]
    /\ closed = FALSE
    /\ now = 0
    /\ out = <<>>
    /\ offers = {}
    /\ discovers = {}
    /\ swept = FALSE
    /\ last = "NONE"
    /\ failed = FALSE
    /\ pc = "loop"
    /\ ret = "none"
    /\ sock = "open"
    /\ run = TRUE
    /\ worker = "running"
    /\ durable = [m \in MACs |-> 0]
    /\ conf = [server_ip |-> range[1], range |-> range]
    /\ result = "none"

\* The network delivers a datagram to port 67 (the socket is bound).
Arrive(d) ==
    /\ sock = "open"
    /\ inbox = NoDatagram
    /\ inbox' = d
    /\ out' = <<>>
    /\ last' = "NONE"
    /\ failed' = FALSE
    /\ UNCHANGED <<hosts, sessions, closed, now, offers, discovers, swept>>
    /\ UNCHANGED stopvars

\* One cycle of _worker in which select reports the socket readable and the
\* datagram decodes to a packet with a message type: dispatch to the
\* Session of its xid, then sweep.  A send of broadcast may raise; broadcast
\* catches and logs it.
Receive ==
    /\ pc = "loop" /\ ~closed
    /\ inbox \in Packets
    /\ LET s == Lookup(sessions, inbox.xid, now)
           r == receive(s, hosts, inbox)
       IN  /\ hosts' = r.hosts
           /\ out' = r.out
           /\ failed' \in (IF r.out = <<>> THEN {FALSE} ELSE BOOLEAN)
           /\ sessions' = Sweep([sessions EXCEPT ![inbox.xid] = s], now)
           /\ offers' = offers \cup OffersOf(r.out)
           /\ discovers' = IF IsDiscover(s, inbox)
                           THEN discovers \cup {inbox.xid} ELSE discovers
    /\ inbox' = NoDatagram
    /\ last' = Kind(inbox)
    /\ swept' = TRUE
    /\ UNCHANGED <<closed, now>>
    /\ UNCHANGED stopvars

\* The fault of a cycle not caught by start(): the exception ends the loop.
Fault_fatal ==
    /\ pc = "loop" /\ ~closed
    /\ inbox \in {Undecodable, NoOption53}
    /\ inbox' = NoDatagram
    /\ last' = Kind(inbox)
    /\ pc' = "exited"
    /\ UNCHANGED <<hosts, sessions, closed, now, out, offers, discovers, swept, failed>>
    /\ UNCHANGED <<ret, sock, run, worker, durable, conf, result>>

\* One cycle of _worker in which DHCPPacket.from_bytes raises, or the
\* option 53 of the decoded packet cannot be read (the log line of _worker
\* raises): the exception leaves _worker before the dispatch and before the
\* sweep, and start() logs it.
Fault ==
    /\ pc = "loop" /\ ~closed
    /\ inbox \in {Undecodable, NoOption53}
    /\ inbox' = NoDatagram
    /\ last' = Kind(inbox)
    /\ UNCHANGED <<hosts, sessions, closed, now, out, offers, discovers, swept, failed>>
    /\ UNCHANGED stopvars

\* One cycle of _worker in which select times out: nothing is dispatched,
\* the table is swept.
Idle ==
    /\ pc = "loop" /\ ~closed
    /\ inbox = NoDatagram
    /\ sessions' = Sweep(sessions, now)
    /\ out' = <<>>
    /\ last' = "NONE"
    /\ failed' = FALSE
    /\ swept' = TRUE
    /\ UNCHANGED <<inbox, hosts, closed, now, offers, discovers>>
    /\ UNCHANGED stopvars

\* The clock advances between two cycles.
Tick ==
    /\ pc = "loop" /\ ~closed
    /\ \E d \in TickSteps :
        /\ now + d <= MaxTime
        /\ now' = now + d
    /\ swept' = FALSE
    /\ UNCHANGED <<inbox, hosts, sessions, closed, out, offers, discovers, last, failed>>
    /\ UNCHANGED stopvars

\* Every Session of the table closed: the last loop of stop().
CloseAll(tab) ==
    [x \in Xids |-> IF tab[x] = NoSession THEN NoSession
                    ELSE [tab[x] EXCEPT !.closed = TRUE]]

\* DHCPServer.stop as one step, called by start() on a KeyboardInterrupt
\* raised while _worker waits in select: the flags are set, the socket is
\* closed (a datagram still waiting in it is dropped with it), the leases are
\* flushed, the worker is joined, every Session of the table is closed; the
\* loop condition of start() then ends the loop.
Stop ==
    /\ pc = "loop" /\ ~closed
    /\ closed' = TRUE
    /\ run' = FALSE
    /\ sock' = "closed"
    /\ inbox' = NoDatagram
    /\ durable' = flush(hosts, durable)
    /\ worker' = "exited"
    /\ sessions' = CloseAll(sessions)
    /\ pc' = "exited"
    /\ ret' = "except"
    /\ UNCHANGED <<hosts, now, out, offers, discovers, swept, last, failed, conf, result>>

\* ------------------------------------------------- DHCPServer.stop, by step
\* stop() without self.closed = True.
StopBegin_noflag(by) ==
    /\ pc = "loop" /\ ~closed
    /\ run' = FALSE
    /\ pc' = "sleep"
    /\ ret' = by
    /\ UNCHANGED <<inbox, hosts, sessions, now, out, offers, discovers, swept, last, failed>>
    /\ UNCHANGED <<closed, sock, worker, durable, conf, result>>

\* stop() entered: self.closed = True, self.hosts.run = False.  by is who
\* called it: "start", the except clause of start() on a KeyboardInterrupt
\* raised while _worker waits in select, or "handler", a signal handler that
\* runs stop(signum, frame) while _worker waits in select.
StopBegin(by) ==
    /\ pc = "loop" /\ ~closed
    /\ closed' = TRUE
    /\ run' = FALSE
    /\ pc' = "sleep"
    /\ ret' = by
    /\ UNCHANGED <<inbox, hosts, sessions, now, out, offers, discovers, swept, last, failed>>
    /\ UNCHANGED <<sock, worker, durable, conf, result>>

\* time.sleep(1) returns.
StopSleep ==
    /\ pc = "sleep"
    /\ pc' = "close"
    /\ UNCHANGED <<inbox, hosts, sessions, closed, now, out, offers, discovers, swept, last, failed>>
    /\ UNCHANGED <<ret, sock, run, worker, durable, conf, result>>

\* self.socket.close(): a datagram still waiting in it is dropped with it.
StopClose ==
    /\ pc = "close"
    /\ sock' = "closed"
    /\ inbox' = NoDatagram
    /\ pc' = "flush"
    /\ UNCHANGED <<hosts, sessions, closed, now, out, offers, discovers, swept, last, failed>>
    /\ UNCHANGED <<ret, run, worker, durable, conf, result>>

\* stop() without the call of flush.
StopFlush_skip ==
    /\ pc = "flush"
    /\ pc' = "join"
    /\ UNCHANGED <<inbox, hosts, sessions, closed, now, out, offers, discovers, swept, last, failed>>
    /\ UNCHANGED <<ret, sock, run, worker, durable, conf, result>>

\* self.hosts.flush()
StopFlush ==
    /\ pc = "flush"
    /\ durable' = flush(hosts, durable)
    /\ pc' = "join"
    /\ UNCHANGED <<inbox, hosts, sessions, closed, now, out, offers, discovers, swept, last, failed>>
    /\ UNCHANGED <<ret, sock, run, worker, conf, result>>

\* self.hosts.t.join() returns once the worker has ended.
StopJoin ==
    /\ pc = "join"
    /\ worker = "exited"
    /\ pc' = "sessions"
    /\ UNCHANGED <<inbox, hosts, sessions, closed, now, out, offers, discovers, swept, last, failed>>
    /\ UNCHANGED <<ret, sock, run, worker, durable, conf, result>>

\* Every Session of the table is closed and stop() returns: to the except
\* clause of start(), which goes on to the loop condition, or from the
\* handler back into select.
StopSessions ==
    /\ pc = "sessions"
    /\ sessions' = CloseAll(sessions)
    /\ pc' = IF ret = "start" THEN "test" ELSE "select"
    /\ UNCHANGED <<inbox, hosts, closed, now, out, offers, discovers, swept, last, failed>>
    /\ UNCHANGED <<ret, sock, run, worker, durable, conf, result>>

\* select.select on the closed socket raises ValueError (its fileno is -1):
\* _worker returns, without a sweep, to the loop condition of start().
SelectClosed ==
    /\ pc = "select"
    /\ sock = "closed"
    /\ pc' = "test"
    /\ UNCHANGED <<inbox, hosts, sessions, closed, now, out, offers, discovers, swept, last, failed>>
    /\ UNCHANGED <<ret, sock, run, worker, durable, conf, result>>

\* while not self.closed: the flag is set, start() returns.
LoopExit ==
    /\ pc = "test"
    /\ closed
    /\ pc' = "exited"
    /\ UNCHANGED <<inbox, hosts, sessions, closed, now, out, offers, discovers, swept, last, failed>>
    /\ UNCHANGED <<ret, sock, run, worker, durable, conf, result>>

\* The persistence worker writes the leases to durable storage.
Persist ==
    /\ worker = "running"
    /\ durable # hosts
    /\ durable' = flush(hosts, durable)
    /\ UNCHANGED <<inbox, hosts, sessions, closed, now, out, offers, discovers, swept, last, failed>>
    /\ UNCHANGED <<pc, ret, sock, run, worker, conf, result>>

\* The persistence worker finds run unset and ends.
WorkerExit ==
    /\ worker = "running"
    /\ ~run
    /\ worker' = "exited"
    /\ UNCHANGED <<inbox, hosts, sessions, closed, now, out, offers, discovers, swept, last, failed>>
    /\ UNCHANGED <<pc, ret, sock, run, durable, conf, result>>

Next ==
    \/ \E d \in Datagrams : Arrive(d)
    \/ Receive
    \/ Fault
    \/ Idle
    \/ Tick
    \/ Stop

Spec == Init /\ [][Next]_vars

\* ------------------------------------------------------- validation
\* A configuration is built and check() is called on it.
CheckInit ==
    /\ conf \in Configurations
    /\ result = "none"
    /\ inbox = NoDatagram
    /\ hosts = [m \in MACs |-> 0]
    /\ sessions = [x \in Xids |-> NoSession]
    /\ closed = FALSE
    /\ now = 0
    /\ out = <<>>
    /\ offers = {}
    /\ discovers = {}
    /\ swept = FALSE
    /\ last = "NONE"
    /\ failed = FALSE
    /\ pc = "loop"
    /\ ret = "none"
    /\ sock = "open"
    /\ run = TRUE
    /\ worker = "running"
    /\ durable = [m \in MACs |-> 0]

Check ==
    /\ result = "none"
    /\ result' = check(conf)
    /\ UNCHANGED <<inbox, hosts, sessions, closed, now, out, offers, discovers, swept, last, failed>>
    /\ UNCHANGED <<pc, ret, sock, run, worker, durable, conf>>

CheckSpec == CheckInit /\ [][Check]_vars

\* ------------------------------------------------------------ shutdown
\* The datagrams of the shutdown specification: the Discover without hint
\* and without hostname of two MACs, each under its own xid, the Request
\* without option 50 of one of them, and a datagram that does not decode.
StopDatagrams ==
    { d \in DiscoverPackets :
        d.opt50 = None /\ d.ciaddr = 0 /\ d.hostname = None /\ d.chaddr = d.xid }
    \cup { d \in RequestPackets : d.opt50 = None /\ d.chaddr = 1 /\ d.xid = 1 }
    \cup { Undecodable }

\* The server with stop() taken step by step and with the persistence
\* worker running beside the loop.
StopNext ==
    \/ \E d \in StopDatagrams : Arrive(d)
    \/ Receive
    \/ Fault
    \/ Idle
    \/ Tick
    \/ Persist
    \/ WorkerExit
    \/ \E by \in {"start", "handler"} : StopBegin(by)
    \/ StopSleep
    \/ StopClose
    \/ StopFlush
    \/ StopJoin
    \/ StopSessions
    \/ SelectClosed
    \/ LoopExit

\* The thread of start() keeps running (sleep returns, close, flush and join
\* return, the loop condition is evaluated), and the worker polls its flag.
StopFairness ==
    /\ WF_vars(StopSleep) /\ WF_vars(StopClose) /\ WF_vars(StopFlush)
    /\ WF_vars(StopJoin) /\ WF_vars(StopSessions) /\ WF_vars(SelectClosed)
    /\ WF_vars(LoopExit) /\ WF_vars(WorkerExit)

StopSpec == Init /\ [][StopNext]_vars /\ StopFairness

\* ================================================================ claims
\* The MACs that hold a lease.
Leased == { m \in MACs : hosts[m] # 0 }

\* A step in which a cycle of the server loop takes the waiting datagram
\* from the socket and handles it (the socket stays open: closing it drops
\* the datagram unread).
Handled == inbox # NoDatagram /\ inbox' = NoDatagram /\ sock' = "open"

\* ---------------------------------------------------------------- C1
\* C1: no two distinct MACs hold a lease on the same IP, and no two Offers
\* broadcast to distinct MACs carry the same IP.
C1_UniqueIPs ==
    /\ \A m1, m2 \in Leased : m1 # m2 => hosts[m1] # hosts[m2]
    /\ \A a, b \in offers : a[1] # b[1] => a[2] # b[2]

\* Two MACs hold leases and each of them has been sent its Offer.
C1_Witness ==
    \E m1, m2 \in Leased :
        /\ m1 # m2
        /\ <<m1, hosts[m1]>> \in offers
        /\ <<m2, hosts[m2]>> \in offers

\* ---------------------------------------------------------------- C2
\* Every Offer sent to a MAC carries the same IP.
C2_SameIP == \A a, b \in offers : a[1] = b[1] => a[2] = b[2]

\* A Discover from a MAC that holds a lease is answered with the Offer of
\* the leased IP and changes no lease, whatever its xid, hint and hostname.
C2_Repeat ==
    (Handled /\ inbox \in DiscoverPackets /\ hosts[inbox.chaddr] # 0)
        => /\ out' = <<Reply("DHCPOFFER", inbox, hosts[inbox.chaddr])>>
           /\ hosts' = hosts

\* C2: every answered Discover of a MAC is answered with the IP of the
\* first Offer to that MAC, and a repeated Discover consumes no second
\* address.
C2_Idempotent == []C2_SameIP /\ [][C2_Repeat]_vars

\* One MAC alone holds a lease and has just been sent an Offer, Discovers
\* of both xids have been received (so this MAC sent at least two), and the
\* Transaction of one of them has been swept.
C2_Witness ==
    \E m \in MACs, x \in Xids :
        /\ Leased = {m}
        /\ discovers = Xids
        /\ sessions[x] = NoSession
        /\ Len(out) = 1
        /\ out[1].type = "DHCPOFFER" /\ out[1].chaddr = m
        /\ out[1].yiaddr = hosts[m]

\* ---------------------------------------------------------------- C3
\* C3: every IP of a lease, of an Offer and of an Ack lies in the allocation
\* range [range.start, range.end].
C3_InRange ==
    /\ \A m \in Leased : hosts[m] \in RangeIPs
    /\ \A a \in offers : a[2] \in RangeIPs
    /\ \A i \in 1 .. Len(out) :
          out[i].type \in {"DHCPOFFER", "DHCPACK"} => out[i].yiaddr \in RangeIPs

\* ---------------------------------------------------------------- C4
\* A cycle that handles a Request from a MAC without lease broadcasts one
\* Nak and nothing else, runs to its sweep and leaves the leases alone.
C4_Step ==
    (Handled /\ inbox \in RequestPackets /\ hosts[inbox.chaddr] = 0)
        => /\ out' = <<Reply("DHCPNAK", inbox, inbox.yiaddr)>>
           /\ hosts' = hosts
           /\ swept'

\* C4: a Request from a MAC without lease is answered with exactly one Nak
\* (no Ack is sent, the cycle completes without a fault) and creates no
\* lease.
C4_NoLeaseNak == [][C4_Step]_vars

\* A Nak has been sent to a MAC while no MAC at all holds a lease.
C4_Witness ==
    /\ Leased = {}
    /\ Len(out) = 1 /\ out[1].type = "DHCPNAK"

\* ---------------------------------------------------------------- C5
\* A Request from a MAC with a lease: Nak when option 50 is present and
\* differs from the leased IP, else Ack with the leased IP.
C5_Step ==
    (Handled /\ inbox \in RequestPackets /\ hosts[inbox.chaddr] # 0)
        => out' = IF inbox.opt50 # None /\ inbox.opt50 # hosts[inbox.chaddr]
                  THEN <<Reply("DHCPNAK", inbox, inbox.yiaddr)>>
                  ELSE <<Reply("DHCPACK", inbox, hosts[inbox.chaddr])>>

\* An Ack carries the IP stored in the lease of its MAC.
C5_AckIsLease ==
    \A i \in 1 .. Len(out) :
        out[i].type = "DHCPACK"
            => hosts[out[i].chaddr] # 0 /\ out[i].yiaddr = hosts[out[i].chaddr]

\* C5: Nak on a requested IP that differs from the lease, Ack with the
\* leased IP otherwise, and no Ack with another IP than the lease's.
C5_RequestChecked == []C5_AckIsLease /\ [][C5_Step]_vars

\* A Nak has been sent to a MAC that holds a lease.
C5_Witness ==
    /\ Len(out) = 1 /\ out[1].type = "DHCPNAK"
    /\ hosts[out[1].chaddr] # 0

\* ---------------------------------------------------------------- C6
\* A Request from a MAC that was sent an Offer before, its option 50 absent
\* or naming the offered IP, is answered with an Ack of the offered IP,
\* whatever its xid (so also under the xid of the Discover).
C6_Step ==
    \A a \in offers :
        (Handled /\ inbox \in RequestPackets /\ inbox.chaddr = a[1]
                 /\ inbox.opt50 \in {None, a[2]})
            => out' = <<Reply("DHCPACK", inbox, a[2])>>

\* C6: Discover then Request of the same MAC and xid produce Offer then
\* Ack, both with the same IP.
C6_OfferThenAck == [][C6_Step]_vars

\* An Ack under xid x has been sent to the only MAC with a lease, x is the
\* only xid a Discover came with, the Transaction of x is in the table, and
\* the Ack carries the IP of the Offer.
C6_Witness ==
    \E m \in MACs, x \in Xids :
        /\ Leased = {m} /\ discovers = {x}
        /\ sessions[x] # NoSession
        /\ <<m, hosts[m]>> \in offers
        /\ out = <<[type |-> "DHCPACK", chaddr |-> m, xid |-> x, yiaddr |-> hosts[m]]>>

\* ---------------------------------------------------------------- C7
\* A Request under an xid no Discover came with.
C7_Case == Handled /\ inbox \in RequestPackets /\ inbox.xid \notin discovers

\* C7 (as claimed): a Request under an xid that no Discover came with is
\* answered with Nak, also when its MAC holds a lease from a Discover under
\* another xid.
C7_Original ==
    [][C7_Case => out' = <<Reply("DHCPNAK", inbox, inbox.yiaddr)>>]_vars

\* C7 (amended): such a Request is answered with Nak when its MAC holds no
\* lease or option 50 names another IP than the lease, and with Ack of the
\* leased IP when the MAC holds a lease from a Discover under another xid.
C7_Amended ==
    [][C7_Case =>
         out' = IF \/ hosts[inbox.chaddr] = 0
                   \/ (inbox.opt50 # None /\ inbox.opt50 # hosts[inbox.chaddr])
                THEN <<Reply("DHCPNAK", inbox, inbox.yiaddr)>>
                ELSE <<Reply("DHCPACK", inbox, hosts[inbox.chaddr])>>]_vars

\* A Nak under an xid no Discover came with has been sent to a MAC without
\* lease, while another MAC holds one.
C7_Witness ==
    /\ Len(out) = 1 /\ out[1].type = "DHCPNAK"
    /\ out[1].xid \notin discovers
    /\ hosts[out[1].chaddr] = 0
    /\ Leased # {}

\* ---------------------------------------------------------------- C8
\* A Discover without option 50 and with ciaddr 0.0.0.0.
NoHint(p) == p.opt50 = None /\ p.ciaddr = 0

\* The Discover without hint of a MAC: with a lease, the Offer of the lease;
\* without lease, the Offer of the first address of the range that no lease
\* holds, which becomes its lease; with the range used up, no reply and no
\* lease.
C8_Step ==
    (Handled /\ inbox \in DiscoverPackets /\ NoHint(inbox))
        => IF hosts[inbox.chaddr] # 0
           THEN /\ out' = <<Reply("DHCPOFFER", inbox, hosts[inbox.chaddr])>>
                /\ hosts' = hosts
           ELSE IF \E ip \in RangeIPs : \A m \in MACs : hosts[m] # ip
           THEN \E ip \in RangeIPs :
                    /\ \A m \in MACs : hosts[m] # ip
                    /\ \A j \in range[1] .. (ip - 1) : \E m \in MACs : hosts[m] = j
                    /\ out' = <<Reply("DHCPOFFER", inbox, ip)>>
                    /\ hosts' = [hosts EXCEPT ![inbox.chaddr] = ip]
           ELSE /\ out' = <<>>
                /\ hosts' = hosts

\* Scenario A: with no lease yet the Offer carries range.start, with
\* range.start alone leased the next MAC is offered range.start + 1.
C8_ScenarioA ==
    (Handled /\ inbox \in DiscoverPackets /\ NoHint(inbox) /\ hosts[inbox.chaddr] = 0)
        => /\ Leased = {} => hosts'[inbox.chaddr] = range[1]
           /\ { hosts[m] : m \in Leased } = {range[1]}
                 => hosts'[inbox.chaddr] = range[1] + 1

\* C8: Discovers without hints are served in scan order from range.start
\* until the range is used up; then a further MAC gets no reply and no
\* lease, and the MACs with a lease still get their Offer.
C8_ScanThenDrop == [][C8_Step /\ C8_ScenarioA]_vars

\* The two addresses of the range are leased in order to two MACs that were
\* offered them, a third MAC has no lease, and the last cycle sent nothing.
C8_Witness ==
    \E m1, m2, m3 \in MACs :
        /\ hosts[m1] = range[1] /\ hosts[m2] = range[2] /\ hosts[m3] = 0
        /\ offers = {<<m1, range[1]>>, <<m2, range[2]>>}
        /\ discovers = Xids
        /\ inbox = NoDatagram /\ swept /\ out = <<>>

\* ---------------------------------------------------------------- C9
\* A step in which _worker reaches its sweep.
SweepStep ==
    \/ Handled /\ inbox \in Packets
    \/ inbox = NoDatagram /\ UNCHANGED <<inbox, now, closed>>

\* The Transactions in the table that have not been closed.
Open == { x \in Xids : sessions[x] # NoSession /\ ~sessions[x].closed }

\* C9 (as claimed): a Transaction created at t stays, unchanged, through every
\* step before t + 30 and is removed by the sweep that runs at or after
\* t + 30.
C9_Original ==
    [][\A x \in Open :
         /\ (now < sessions[x].start + SessionTimeout /\ ~closed')
               => sessions'[x] = sessions[x]
         /\ (now >= sessions[x].start + SessionTimeout /\ SweepStep)
               => sessions'[x] = NoSession]_vars

\* C9 (amended): a Transaction created at t stays, unchanged, through every
\* step up to and at t + 30 and is removed by the first sweep that runs
\* after t + 30.
C9_Amended ==
    [][\A x \in Open :
         /\ (now <= sessions[x].start + SessionTimeout /\ ~closed')
               => sessions'[x] = sessions[x]
         /\ (now > sessions[x].start + SessionTimeout /\ SweepStep)
               => sessions'[x] = NoSession]_vars

\* After a sweep, the Transaction of an xid a Discover came with is gone
\* from the table, and another Transaction is in the table at its deadline.
C9_Witness ==
    \E x, y \in Xids :
        /\ swept /\ ~closed
        /\ x \in discovers /\ sessions[x] = NoSession
        /\ sessions[y] # NoSession /\ sessions[y].timeout = now

\* --------------------------------------------------------------- C10
\* C10: the leases (and with them the free addresses of the range) change
\* only in a step that handles a Discover of a client.
C10_OnlyDiscover ==
    [][(hosts' # hosts \/ FreeIPs(hosts') # FreeIPs(hosts))
         => (Handled /\ inbox \in DiscoverPackets)]_vars

\* A Request under an xid a Discover came with has been refused with Nak:
\* its MAC has no lease although an address of the range is free.
C10_Witness ==
    /\ Len(out) = 1 /\ out[1].type = "DHCPNAK"
    /\ out[1].xid \in discovers
    /\ hosts[out[1].chaddr] = 0
    /\ FreeIPs(hosts) # {}

\* --------------------------------------------------------------- C11
\* C11 (as claimed): every Discover handled causes one broadcast, of an
\* Offer; every Request one broadcast, of an Ack or of a Nak; no other
\* datagram causes a broadcast.
C11_Original ==
    [][Handled =>
         IF inbox \in DiscoverPackets
         THEN Len(out') = 1 /\ out'[1].type = "DHCPOFFER"
         ELSE IF inbox \in RequestPackets
         THEN Len(out') = 1 /\ out'[1].type \in {"DHCPACK", "DHCPNAK"}
         ELSE out' = <<>>]_vars

\* C11 (amended): a Discover causes one broadcast, of an Offer, when its MAC
\* holds a lease after the Lease Store call, and no broadcast when the
\* Lease Store had no address for it; a Request causes one broadcast, of an
\* Ack or of a Nak; no other datagram causes a broadcast.
C11_Amended ==
    [][Handled =>
         IF inbox \in DiscoverPackets
         THEN IF hosts'[inbox.chaddr] # 0
              THEN Len(out') = 1 /\ out'[1].type = "DHCPOFFER"
              ELSE out' = <<>> /\ FreeIPs(hosts) = {}
         ELSE IF inbox \in RequestPackets
         THEN Len(out') = 1 /\ out'[1].type \in {"DHCPACK", "DHCPNAK"}
         ELSE out' = <<>>]_vars

\* The last cycle handled a Discover and broadcast nothing: a MAC is without
\* lease and no address of the range is free.
C11_Witness ==
    /\ last = "DISCOVER" /\ out = <<>>
    /\ FreeIPs(hosts) = {}
    /\ \E m \in MACs : hosts[m] = 0

\* --------------------------------------------------------------- C12
\* C12: once a Request has been answered with Ack or Nak, the Transaction
\* of its xid is finished: it is closed and out of the table when the cycle
\* ends, so that the next message with that xid (a Discover that restarts)
\* is handled by a newly created Transaction.
C12_OneExchange ==
    [][(Handled /\ inbox \in RequestPackets
          /\ \E i \in 1 .. Len(out') : out'[i].type \in {"DHCPACK", "DHCPNAK"})
         => sessions'[inbox.xid] = NoSession]_vars

\* --------------------------------------------------------------- C13
\* A closed Transaction handed the waiting packet, whatever the packet and
\* the state of the Lease Store: no reply and the leases as they were.
C13_ClosedIgnores ==
    inbox \in Packets
        => receive([NewSession(now) EXCEPT !.closed = TRUE], hosts, inbox)
              = [hosts |-> hosts, out |-> <<>>]

\* A closed Transaction in the table stays closed until it leaves the table.
C13_StaysClosed ==
    \A x \in Xids :
        (sessions[x] # NoSession /\ sessions[x].closed)
            => (sessions'[x] = NoSession \/ sessions'[x].closed)

\* C13 (as claimed): a client message of another type than Discover and
\* Request causes no reply and no change of a lease, and its Transaction is
\* in the table afterwards, open, with its start and deadline as before; a
\* closed Transaction ignores every message and is never open again.
C13_Original ==
    /\ []C13_ClosedIgnores
    /\ [][C13_StaysClosed]_vars
    /\ [][(Handled /\ inbox \in OtherPackets)
            => /\ out' = <<>> /\ hosts' = hosts
               /\ sessions'[inbox.xid] # NoSession
               /\ ~sessions'[inbox.xid].closed
               /\ sessions[inbox.xid] # NoSession
                     => sessions'[inbox.xid] = sessions[inbox.xid]]_vars

\* C13 (amended): such a message causes no reply and no change of a lease;
\* its Transaction stays in the table, open, with its start and deadline as
\* before, unless its deadline has elapsed, in which case the sweep of the
\* same cycle closes and removes it; a closed Transaction ignores every
\* message and is never open again.
C13_Amended ==
    /\ []C13_ClosedIgnores
    /\ [][C13_StaysClosed]_vars
    /\ [][(Handled /\ inbox \in OtherPackets)
            => /\ out' = <<>> /\ hosts' = hosts
               /\ IF sessions[inbox.xid] # NoSession /\ sessions[inbox.xid].timeout < now
                  THEN sessions'[inbox.xid] = NoSession
                  ELSE /\ sessions'[inbox.xid] # NoSession
                       /\ ~sessions'[inbox.xid].closed
                       /\ sessions[inbox.xid] # NoSession
                             => sessions'[inbox.xid] = sessions[inbox.xid]]_vars

\* The last cycle handled a client message of another type: nothing was
\* broadcast, no MAC holds a lease, and the Transaction of every xid, the
\* message's among them, is in the table, open, created earlier and now at
\* its deadline.
C13_Witness ==
    /\ last = "OTHER" /\ out = <<>> /\ Leased = {}
    /\ \A x \in Xids :
          /\ sessions[x] # NoSession /\ ~sessions[x].closed
          /\ sessions[x].start < now /\ sessions[x].timeout = now

\* --------------------------------------------------------------- C14
\* The Transaction of the datagram's xid after the cycle: the one that was
\* in the table, with its start time, unless the sweep removed it; for an
\* unseen xid, one new Transaction created now.
C14_Routed ==
    IF sessions[inbox.xid] # NoSession
    THEN sessions'[inbox.xid] \in {sessions[inbox.xid], NoSession}
    ELSE sessions'[inbox.xid] = [start |-> now, timeout |-> now + SessionTimeout,
                                 closed |-> FALSE]

\* C14 (as claimed): a datagram is routed to the Transaction of its xid,
\* which is created when the xid is unseen and is not reset otherwise, and
\* the Transactions of all other xids are after the cycle what they were
\* before.
C14_Original ==
    [][(Handled /\ inbox \in Packets)
         => /\ C14_Routed
            /\ \A y \in Xids \ {inbox.xid} : sessions'[y] = sessions[y]]_vars

\* C14 (amended): as claimed, except that the Transactions of other xids
\* whose deadline has elapsed are removed by the sweep of the cycle; the
\* others are what they were before.
C14_Amended ==
    [][(Handled /\ inbox \in Packets)
         => /\ C14_Routed
            /\ \A y \in Xids \ {inbox.xid} :
                  sessions'[y] = IF sessions[y] # NoSession /\ sessions[y].timeout < now
                                 THEN NoSession ELSE sessions[y]]_vars

\* One MAC alone holds a lease and sent Discovers under both xids; the last
\* cycle handled a packet; the Transaction of one xid was created in it and
\* the Transaction of the other, created earlier, is still in the table.
C14_Witness ==
    \E x, y \in Xids, m \in MACs :
        /\ last \in {"DISCOVER", "REQUEST"}
        /\ Leased = {m} /\ discovers = Xids
        /\ sessions[x] # NoSession /\ sessions[x].start = now
        /\ sessions[y] # NoSession /\ sessions[y].start < now

\* --------------------------------------------------------------- C15
\* A step in which a cycle of the loop ends: it took the waiting datagram,
\* or select timed out with no datagram waiting.
CycleEnd ==
    \/ Handled
    \/ inbox = NoDatagram /\ pc = "loop" /\ UNCHANGED <<inbox, now, closed, pc>>

\* C15: at the end of every cycle of the loop, also of a cycle whose
\* datagram did not decode, the table holds no Transaction that is closed
\* or whose deadline has elapsed.
C15_SweptEveryCycle ==
    [][CycleEnd =>
         \A x \in Xids :
             sessions'[x] # NoSession
                 => ~sessions'[x].closed /\ ~(sessions'[x].timeout < now')]_vars

\* --------------------------------------------------------------- C16
\* The loop of start() goes on after the step.
LoopRuns == pc' = "loop" /\ ~closed' /\ sock' = "open"

\* A cycle takes a datagram that does not decode or whose message type
\* cannot be read.
C16_Unparseable == Handled /\ inbox \in {Undecodable, NoOption53}

\* A cycle takes a packet whose message type is no DHCP message type.
C16_UnknownType == Handled /\ inbox \in OtherPackets /\ inbox.type \notin DHCPMessages

\* A cycle takes a packet and the send of its reply raises.
C16_SendFails == Handled /\ failed'

AllFlushed == \A m \in MACs : hosts[m] # 0 => durable[m] = hosts[m]

\* The order of stop(): the flags first, then the socket, then the flush,
\* then the join of the worker, then the Transactions; and what holds once
\* stop() has returned.
C17_Order ==
    /\ pc # "loop" => closed /\ ~run
    /\ pc \in {"flush", "join", "sessions", "test", "select", "exited"}
          => sock = "closed" /\ inbox = NoDatagram
    /\ pc \in {"join", "sessions", "test", "select", "exited"} => AllFlushed
    /\ pc \in {"sessions", "test", "select", "exited"} => worker = "exited"
    /\ pc \in {"test", "select", "exited"}
          => \A x \in Xids : sessions[x] # NoSession => sessions[x].closed

\* Once the flag is set no cycle takes a datagram, nothing is broadcast and
\* no lease is allocated; the table changes only by the closing of its
\* Transactions.
C17_NoCycle ==
    closed => /\ ~Handled
              /\ hosts' = hosts /\ swept' = swept
              /\ out' \in {out, <<>>} /\ last' \in {last, "NONE"}
              /\ offers' = offers /\ discovers' = discovers
              /\ sessions' \in {sessions, CloseAll(sessions)}

C18_NoFurtherCycle ==
    pc # "loop"
        => /\ ~Handled /\ swept' = swept /\ hosts' = hosts
           /\ pc' # "loop"
           /\ pc = "select" => pc' \in {"select", "test"}
           /\ pc = "test" => pc' \in {"test", "exited"}
           /\ pc = "exited" => pc' = "exited"

\* C18: once stop has been raised the loop terminates: start() returns,
\* also when stop() closed the socket under the select of the loop, and no
\* further cycle begins.
C18_Terminates ==
    /\ (pc # "loop") ~> (pc = "exited")
    /\ [][C18_NoFurtherCycle]_vars

\* start() has returned after a stop() that a signal handler ran under the
\* select of the loop, with a Transaction in the table.
C18_Witness ==
    /\ pc = "exited" /\ ret = "handler"
    /\ sock = "closed" /\ closed
    /\ \E x \in Xids : sessions[x] # NoSession

\* --------------------------------------------------------------- C19
\* The number of addresses of the inclusive range of a configuration.
RangeSize(c) == IF c.range[2] < c.range[1] THEN 0 ELSE c.range[2] - c.range[1] + 1

\* C19: check() returns exactly when the configuration has a server IP, both
\* endpoints of its range lie in the network and the inclusive range holds
\* at least 2 addresses, and raises InvalidDHCPConfiguration otherwise.
C19_Accepts ==
    result # "none"
        => /\ result \in {"ok", "InvalidDHCPConfiguration"}
           /\ result = "ok"
                <=> /\ conf.server_ip # None
                    /\ conf.range[1] \in network /\ conf.range[2] \in network
                    /\ RangeSize(conf) >= 2

\* --------------------------------------------------------------- C20
\* The Transaction of the waiting packet is in the table, not closed, with
\* its deadline elapsed.
C20_Elapsed ==
    /\ inbox \in DiscoverPackets \cup RequestPackets
    /\ sessions[inbox.xid] # NoSession
    /\ ~sessions[inbox.xid].closed
    /\ sessions[inbox.xid].timeout < now

\* Such a packet is answered as by an open Transaction (a Request with one
\* Ack or Nak, a Discover with the Offer of the lease its MAC then holds),
\* and the Transaction is out of the table when the cycle ends.
C20_Step ==
    (Handled /\ C20_Elapsed)
        => /\ inbox \in RequestPackets
                 => Len(out') = 1 /\ out'[1].type \in {"DHCPACK", "DHCPNAK"}
           /\ (inbox \in DiscoverPackets /\ hosts'[inbox.chaddr] # 0)
                 => out' = <<Reply("DHCPOFFER", inbox, hosts'[inbox.chaddr])>>
           /\ sessions'[inbox.xid] = NoSession

\* A packet whose xid is not in the table starts a Transaction at the time
\* of its cycle.
C20_Restart ==
    (Handled /\ inbox \in Packets /\ sessions[inbox.xid] = NoSession)
        => sessions'[inbox.xid] # NoSession /\ sessions'[inbox.xid].start = now

\* C20: a Discover or Request for a Transaction past its deadline and not
\* yet swept is still answered; the sweep of the same cycle removes that
\* Transaction, and the next datagram with its xid starts a new one.
C20_LateButAnswered == [][C20_Step /\ C20_Restart]_vars

\* The last cycle answered a Discover or Request, and the Transaction of
\* the xid of the reply is not in the table: the sweep of that cycle removed
\* it.
C20_Witness ==
    /\ last \in {"DISCOVER", "REQUEST"} /\ swept /\ ~closed
    /\ Len(out) = 1
    /\ sessions[out[1].xid] = NoSession

====
